---- MODULE Spec2Model ----
(***************************************************************************)
(* Photini, photini/facebook.py: the place resolver of FacebookSession.     *)
(*                                                                         *)
(*   get_places  a generator over the pages of one place search            *)
(*   distance    the planar distance between a lat/long and a location     *)
(*   is_city     the city-eligibility test of a place record               *)
(*   get_cities  the resolver, with the module-level list cities_cache     *)
(*                                                                         *)
(* Python values are modelled as follows.  A dict is a TLA+ function and   *)
(* `key in d' is `key \in DOMAIN d'; reading a missing key raises          *)
(* KeyError.  A str is a sequence of one-character strings.  A list is a   *)
(* reference into heap, so that two names of one list object share its     *)
(* contents.  A latitude or longitude is an integer number of grid steps   *)
(* of 10/111320 degree: one step of longitude is 10 m in distance().       *)
(***************************************************************************)
EXTENDS Integers, Sequences, FiniteSets, TLC

VARIABLES
    cities_cache,   \* the module-level list: <<[location, cities_list]>>, cities_list a heap reference
    heap,           \* the list objects: heap[r] is the sequence of places of list r
    pc,             \* "idle" | "primary" | "secondary": where get_cities waits for self.get
    latlong,        \* argument of the current (or the last) get_cities call
    result,         \* local `result' of get_cities: a heap reference, 0 outside a call
    hist,           \* local `hist': word -> count, of the current (or the last) call
    words,          \* local `words'[:5], the part of the sorted list the loop reads
    threshold,      \* local `threshold'
    wi,             \* position of the loop over words[:5]
    request,        \* the request self.get has been called with and has not answered
    pages,          \* pages the current get_places generator has received
    yielded,        \* places the primary search of the current (or the last) call has yielded
    searches,       \* the place searches the current call has issued: <<[distance, q]>>
    outcome,        \* how the last call ended: returned a list, or raised
    calls,          \* get_cities calls made so far
    returned,       \* coordinate -> the list the first call with it that returned, returned
    arg, ret,       \* a direct call of is_city: its argument and what it returned
    world           \* the environment of the run: "geo", "places", "words", "pages" or "tokens"

vars == <<cities_cache, heap, pc, latlong, result, hist, words, threshold, wi,
          request, pages, yielded, searches, outcome, calls, returned, arg, ret, world>>

----------------------------------------------------------------------------
(* Bounds of the exploration. *)

MaxCalls == 3       \* get_cities calls in one run
MaxPages == 2       \* pages one search can be spread over
MaxPageLen == 1     \* places in one page

----------------------------------------------------------------------------
(* Program constants. *)

MetresPerDegree == 111320
HitRadius == 500
ReuseRadius == 1000
PrimaryRadius == 1000
SecondaryRadius == 10000
MaxWords == 5
NoDistance == 2000000000    \* stands for 1.0e12 (squared): above every distance

UnitsPerDegree == MetresPerDegree \div 10
Sq(x) == x * x

----------------------------------------------------------------------------
(* Python strings as sequences of characters. *)

UpperCase == <<"A","B","C","D","E","F","G","H","I","J","K","L","M",
               "N","O","P","Q","R","S","T","U","V","W","X","Y","Z">>
LowerCase == <<"a","b","c","d","e","f","g","h","i","j","k","l","m",
               "n","o","p","q","r","s","t","u","v","w","x","y","z">>

\* str.lower() on one character
LowerChar(c) ==
    IF \E i \in 1..26 : UpperCase[i] = c
    THEN LowerCase[CHOOSE i \in 1..26 : UpperCase[i] = c]
    ELSE c

\* str.lower()
Lower(s) == [i \in 1..Len(s) |-> LowerChar(s[i])]

\* str.split(): the maximal runs of non-blank characters, left to right
WordStarts(s) == {i \in 1..Len(s) : s[i] # " " /\ (i = 1 \/ s[i - 1] = " ")}

WordEnd(s, i) ==
    CHOOSE j \in i..Len(s) :
        /\ \A k \in i..j : s[k] # " "
        /\ (j = Len(s) \/ s[j + 1] = " ")

Split(s) ==
    LET starts == WordStarts(s)
    IN  [n \in 1..Cardinality(starts) |->
            LET i == CHOOSE i \in starts : Cardinality({j \in starts : j <= i}) = n
            IN  SubSeq(s, i, WordEnd(s, i))]

\* the words of a list joined by single blanks (to write names down)
RECURSIVE Join(_)
Join(ws) ==
    IF ws = <<>> THEN <<>>
    ELSE IF Len(ws) = 1 THEN ws[1]
    ELSE ws[1] \o <<" ">> \o Join(Tail(ws))

Has(d, key) == key \in DOMAIN d

----------------------------------------------------------------------------
(* distance *)

\* math.cos(math.radians(lat)) in millionths, for the latitudes in use
CosMicro(lat) ==
    IF lat = 90 * UnitsPerDegree THEN 0
    ELSE IF lat = 90 * UnitsPerDegree - 6679 THEN 10471
    ELSE 1000000

\* The square of distance(a, b), in square metres.  sqrt is increasing, so
\* every comparison of distances is the comparison of their squares.
distance(a, b) ==
    LET dx == ((a.lon - b.longitude) * MetresPerDegree) \div UnitsPerDegree
        dy == ((((a.lat - b.latitude) * MetresPerDegree) \div UnitsPerDegree)
                  * CosMicro(a.lat)) \div 1000000
    IN  (dx * dx) + (dy * dy)

----------------------------------------------------------------------------
(* is_city *)

CityCategories == {"City", "Neighborhood", "Country", "State/province/region"}

\* is_city without line 172: the longitude is not asked for
is_city_latitude_only(place) ==
    IF ~Has(place, "category") THEN "KeyError"
    ELSE IF place.category \notin CityCategories THEN "False"
    ELSE IF ~Has(place, "location") THEN "KeyError"
    ELSE IF ~Has(place.location, "latitude") THEN "False"
    ELSE "True"

\* "True", "False", or "KeyError" when a subscript fails
is_city(place) ==
    IF ~Has(place, "category") THEN "KeyError"
    ELSE IF place.category \notin CityCategories THEN "False"
    ELSE IF ~Has(place, "location") THEN "KeyError"
    ELSE IF ~Has(place.location, "latitude") THEN "False"
    ELSE IF ~Has(place.location, "longitude") THEN "False"
    ELSE "True"

----------------------------------------------------------------------------
(* get_cities: the bodies of its loops *)

\* StripWord without lines 194-195: the end of the word is left as it is
StripWordLeadingOnly(word) ==
    IF word # <<>> /\ word[1] \in {",", "("} THEN Tail(word) ELSE word

\* lines 192-195: drop one leading ',' or '(' and then one trailing ',' or ')'
StripWord(word) ==
    LET w1 == IF word # <<>> /\ word[1] \in {",", "("} THEN Tail(word) ELSE word
    IN  IF w1 # <<>> /\ w1[Len(w1)] \in {",", ")"}
        THEN SubSeq(w1, 1, Len(w1) - 1)
        ELSE w1

\* hist[key] += 1 on a defaultdict(int)
Increment(h, key) ==
    [k \in DOMAIN h \cup {key} |->
        IF k = key THEN (IF key \in DOMAIN h THEN h[key] + 1 ELSE 1) ELSE h[k]]

\* lines 191-197 for the words ws
RECURSIVE CountWords(_, _)
CountWords(ws, h) ==
    IF ws = <<>> THEN h
    ELSE LET word == StripWord(Head(ws))
         IN  CountWords(Tail(ws),
                        IF Len(word) > 2 THEN Increment(h, Lower(word)) ELSE h)

\* `place in result': equality of dicts
InList(place, list) == \E i \in 1..Len(list) : list[i] = place

\* AppendCity without the is_city test: every place not yet in the list is appended
AppendCityUnfiltered(place, st) ==
    IF InList(place, st.list) THEN st
    ELSE IF is_city(place) = "KeyError" THEN [st EXCEPT !.exc = "KeyError"]
    ELSE [st EXCEPT !.list = Append(@, place)]

\* lines 198-199 and 210-211: `if place not in result and self.is_city(place)'
\* on the loop state st = [hist, list, exc, seen]
AppendCity(place, st) ==
    IF InList(place, st.list) THEN st
    ELSE IF is_city(place) = "KeyError" THEN [st EXCEPT !.exc = "KeyError"]
    ELSE IF is_city(place) = "True" THEN [st EXCEPT !.list = Append(@, place)]
    ELSE st

\* lines 191-199: one pass of the loop over the primary search
PrimaryBody(place, st) ==
    IF ~Has(place, "name") \/ ~Has(place, "location") THEN [st EXCEPT !.exc = "KeyError"]
    ELSE IF ~Has(place.location, "city") THEN [st EXCEPT !.exc = "KeyError"]
    ELSE AppendCity(place,
            [st EXCEPT !.hist = CountWords(Split(place.name) \o Split(place.location.city), @)])

\* lines 210-211: one pass of the loop over a secondary search
SecondaryBody(place, st) == AppendCity(place, st)

\* the consumer's loop over the places one page yields, up to the first exception
RECURSIVE Consume(_, _, _)
Consume(data, primary, st) ==
    IF data = <<>> \/ st.exc # "none" THEN st
    ELSE Consume(Tail(data), primary,
                 IF primary THEN PrimaryBody(Head(data), [st EXCEPT !.seen = @ + 1])
                            ELSE SecondaryBody(Head(data), [st EXCEPT !.seen = @ + 1]))

\* lines 200-201
DefaultHist(h) == IF DOMAIN h = {} THEN (<<"c", "i", "t", "y">> :> 1) ELSE h

\* the keys of greatest count among ks
Top(h, ks) == {k \in ks : \A j \in ks : h[j] <= h[k]}

\* lines 202-203 and 206: the lists words[:n] that sorting the keys by
\* descending count can give; keys of equal count come in the order the
\* dict iterates them, which any order can be
RECURSIVE SortedHeads(_, _, _)
SortedHeads(h, ks, n) ==
    IF n = 0 \/ ks = {} THEN {<<>>}
    ELSE UNION {{<<k>> \o t : t \in SortedHeads(h, ks \ {k}, n - 1)} : k \in Top(h, ks)}

\* hist[words[i]] with i counted from 0, whatever the order of equal counts
RECURSIVE CountAt(_, _, _)
CountAt(h, ks, i) ==
    LET k == CHOOSE k \in Top(h, ks) : TRUE
    IN  IF i = 0 THEN h[k] ELSE CountAt(h, ks \ {k}, i - 1)

\* Threshold with the middle index taken as (len(words) - 1) // 2
ThresholdBelowMiddle(h) == CountAt(h, DOMAIN h, (Cardinality(DOMAIN h) - 1) \div 2)

\* line 205
Threshold(h) == CountAt(h, DOMAIN h, Cardinality(DOMAIN h) \div 2)

----------------------------------------------------------------------------
(* The environment: the coordinates the caller asks about and the place   *)
(* records the search API serves.                                          *)

NorthPole == 90 * UnitsPerDegree
Arctic == NorthPole - 6679           \* latitude 89.4, where cos is 0.010471

LatLong(lat, lon) == [lat |-> lat, lon |-> lon]

PoleLL == LatLong(NorthPole, 0)
LL0 == LatLong(Arctic, 0)
LL40 == LatLong(Arctic, 40)          \* 400 m east of LL0
LL50 == LatLong(Arctic, 50)          \* 500 m east of LL0
LL100 == LatLong(Arctic, 100)        \* 1000 m east of LL0

rome == <<"R", "o", "m", "e">>
roma == <<"R", "o", "m", "a">>
oslo == <<"O", "s", "l", "o">>
kommune == <<"k", "o", "m", "m", "u", "n", "e">>
cafe == <<"C", "a", "f", "e">>

Rome == [category |-> "City", id |-> 1, name |-> rome,
         location |-> [city |-> rome, latitude |-> Arctic, longitude |-> 10]]
\* the record of place 1 under another name
Roma == [category |-> "City", id |-> 1, name |-> roma,
         location |-> [city |-> rome, latitude |-> Arctic, longitude |-> 10]]
Oslo == [category |-> "City", id |-> 2, name |-> oslo,
         location |-> [city |-> Join(<<oslo, kommune>>), latitude |-> Arctic, longitude |-> 60]]
Cafe == [category |-> "Restaurant", id |-> 3, name |-> Join(<<cafe, rome>>),
         location |-> [city |-> rome, latitude |-> Arctic, longitude |-> 11]]
\* an eligible category with one coordinate only
NoLongitude == [category |-> "Country", id |-> 4, name |-> rome,
                location |-> [city |-> rome, latitude |-> Arctic]]
\* records without the location field, or without the city of the location
NoLocation == [category |-> "City", id |-> 6, name |-> oslo]
NoCity == [category |-> "State/province/region", id |-> 8, name |-> oslo,
           location |-> [latitude |-> Arctic, longitude |-> 61]]

\* a place whose name and city hold twelve words, of counts 4, 3, 3, 2, 2, 2
\* and six times 1, written in mixed case and with punctuation around them
W3(c) == <<c, c, c>>
Wordy == [category |-> "City", id |-> 9,
          name |-> Join(<< <<"A", "a", "a">>, <<"(">> \o W3("a") \o <<")">>,
                           W3("a") \o <<",">>, <<",">> \o W3("A"),
                           W3("b"), <<"B", "b", "b">>, <<"(">> \o W3("b"),
                           W3("c"), W3("c") \o <<")">>, W3("C") \o <<",">>,
                           W3("d"), W3("d"), W3("e"), W3("e"), W3("f"), W3("f"),
                           <<"o", "f">>, <<"(", "x", ")">> >>),
          location |-> [city |-> Join(<< <<"(", "(">> \o W3("g") \o <<")", ")">>, W3("h"),
                                         W3("i"), W3("j"), W3("k"), W3("l") >>),
                        latitude |-> Arctic, longitude |-> 0]]

\* places whose names and cities hold words in mixed case, with the
\* punctuation the tokenizer strips, doubled punctuation, and short words
Punct == [category |-> "City", id |-> 10,
          name |-> Join(<< <<"(", "A", "b", "c", ")">>, <<",", "a", "b", "c", ",">>,
                           <<"(", "(", "a", "b", "c", ")", ")">>, <<"A", "B", "C">>,
                           <<"o", "f">>, <<"(", "x", ")">>, <<",", "a", "b", ")">>,
                           <<"(", "a", "b", "c", "d">> >>),
          location |-> [city |-> Join(<< <<"A", "b", "c", ",">>, <<"(", ")">>, <<")", "a", "b", "c", "(">> >>),
                        latitude |-> Arctic, longitude |-> 0]]
Plain == [category |-> "Restaurant", id |-> 11,
          name |-> Join(<< <<"a", "b", "c">>, <<"a", "b", "c", "d", ",">> >>),
          location |-> [city |-> Join(<< <<"A", "B", "C", "D">>, <<"(", ",", ")">>, <<",">> >>),
                        latitude |-> Arctic, longitude |-> 0]]

\* latlongs: the coordinates get_cities is called with; places: the records
\* the API serves; cursors: the values paging.next takes; calls: the
\* number of get_cities calls of a run
GeoWorld == [latlongs |-> {PoleLL, LL0, LL40, LL50, LL100},
             places |-> {Oslo},
             cursors |-> {"next1"},
             calls |-> MaxCalls + 1]
PlaceWorld == [latlongs |-> {LL0, LL50},
               places |-> {Rome, Roma, NoLongitude, NoLocation, NoCity},
               cursors |-> {"next1"},
               calls |-> MaxCalls]
WordWorld == [latlongs |-> {LL0},
              places |-> {Wordy, Cafe},
              cursors |-> {"next1", "next2"},
              calls |-> MaxCalls]
PageWorld == [latlongs |-> {LL0, LL50},
              places |-> {Oslo, NoLocation},
              cursors |-> {"next1", "next2"},
              calls |-> MaxCalls]
TokenWorld == [latlongs |-> {LL0},
               places |-> {Punct, Plain},
               cursors |-> {"next1"},
               calls |-> MaxCalls]

\* the exceptions session.get, raise_for_status and json can raise
GetErrors == {"ConnectionError", "HTTPError"}

\* the sequences over S of length 0..n
RECURSIVE SeqsUpTo(_, _)
SeqsUpTo(S, n) ==
    IF n = 0 THEN {<<>>}
    ELSE LET shorter == SeqsUpTo(S, n - 1)
         IN  shorter \cup {Append(t, x) : t \in {u \in shorter : Len(u) = n - 1}, x \in S}

\* The JSON bodies the API can answer with after `got' pages of one search:
\* the empty object, or a page of data without `paging', with a `paging'
\* that has no `next', or with a `next' cursor.
Responses(w, got) ==
    LET datas == SeqsUpTo(w.places, MaxPageLen)
    IN  {<<>>}
        \cup {[data |-> d] : d \in datas}
        \cup {[data |-> d, paging |-> <<>>] : d \in datas}
        \cup (IF got + 1 < MaxPages
              THEN {[data |-> d, paging |-> [next |-> c]] : d \in datas, c \in w.cursors}
              ELSE {})

\* The place records is_city is called with directly: every category of
\* Categories or none, with every subset of the fields of location or none.
Categories == CityCategories \cup {"Restaurant", "Airport"}
Only(d, keys) == [k \in keys |-> d[k]]
Locations == {Only(Rome.location, ks) : ks \in SUBSET {"city", "latitude", "longitude"}}
PlaceShapes ==
    LET full == {[category |-> c, id |-> i, name |-> rome, location |-> l] :
                    c \in Categories, i \in {1, 2}, l \in Locations}
    IN  UNION {{p, Only(p, {"category", "id", "name"}), Only(p, {"id", "name", "location"})} :
                 p \in full}

\* the environment a run is in
Env ==
    CASE world = "geo" -> GeoWorld
      [] world = "places" -> PlaceWorld
      [] world = "words" -> WordWorld
      [] world = "pages" -> PageWorld
      [] world = "tokens" -> TokenWorld

----------------------------------------------------------------------------
(* get_cities and get_places as a state machine.  A step runs the code    *)
(* from one self.get call to the next one, or to the end of get_cities.   *)

None == 0
NoRequest == [url |-> "none", params |-> <<>>]
NoOutcome == [kind |-> "none", value |-> None, exc |-> "none"]

SearchURL == "https://graph.facebook.com/search"

\* lines 146-153: the first request of get_places(ll, dist, query)
SearchRequest(ll, dist, query) ==
    [url |-> SearchURL,
     params |-> [q |-> query, type |-> "place", center |-> ll,
                 distance |-> dist, fields |-> "category,id,location,name"]]

\* NextRequest with the search URL asked again instead of the cursor
NextRequestSearchAgain(places) == [url |-> SearchURL, params |-> <<>>]

\* line 159: the request for the page after `places'
NextRequest(places) == [url |-> places.paging.next, params |-> <<>>]

\* lines 154 and 157: whether the generator stops after the page `places'
LastPage(places) ==
    places = <<>> \/ ~Has(places, "paging") \/ ~Has(places.paging, "next")

\* Nearest without its comparison: the last entry is taken
RECURSIVE NearestLast(_, _, _, _)
NearestLast(cache, i, ll, nearest) ==
    IF i > Len(cache) THEN nearest
    ELSE NearestLast(cache, i + 1, ll,
                     [cities_list |-> cache[i].cities_list,
                      dist |-> distance(ll, cache[i].location)])

\* lines 176-180: the loop over cities_cache, from entry i on
RECURSIVE Nearest(_, _, _, _)
Nearest(cache, i, ll, nearest) ==
    IF i > Len(cache) THEN nearest
    ELSE LET dist == distance(ll, cache[i].location)
         IN  Nearest(cache, i + 1, ll,
                     IF dist < nearest.dist
                     THEN [cities_list |-> cache[i].cities_list, dist |-> dist]
                     ELSE nearest)

\* NewResult without line 185: the list always starts empty
NewResultEmpty(hp, nearest) == [heap |-> Append(hp, <<>>), ref |-> Len(hp) + 1]

\* NewResult with `result = nearest[0]' for line 185: no copy is made
NewResultShared(hp, nearest) ==
    IF nearest.dist < Sq(ReuseRadius)
    THEN [heap |-> hp, ref |-> nearest.cities_list]
    ELSE [heap |-> Append(hp, <<>>), ref |-> Len(hp) + 1]

\* lines 183-187: the list `result' starts as, given the nearest entry:
\* a new list object, a copy of the nearest list within the reuse radius
NewResult(hp, nearest) ==
    [heap |-> Append(hp, IF nearest.dist < Sq(ReuseRadius)
                         THEN hp[nearest.cities_list] ELSE <<>>),
     ref |-> Len(hp) + 1]

\* a list no name refers to any more is gone
Unwind(hp, ref, cache) ==
    IF \E i \in 1..Len(cache) : cache[i].cities_list = ref
    THEN hp
    ELSE IF ref = Len(hp) THEN SubSeq(hp, 1, Len(hp) - 1) ELSE hp

\* the record of the lists returned, with the list `ref' noted for the
\* coordinate ll if no call with ll has returned before
Noted(rets, ll, ref) == IF ll \in DOMAIN rets THEN rets ELSE rets @@ (ll :> ref)

InitIn(w) ==
    /\ world = w
    /\ cities_cache = <<>>
    /\ heap = <<>>
    /\ pc = "idle"
    /\ latlong = LL0
    /\ result = None
    /\ hist = <<>>
    /\ words = <<>>
    /\ threshold = 0
    /\ wi = 0
    /\ request = NoRequest
    /\ pages = 0
    /\ yielded = 0
    /\ arg = None
    /\ ret = "none"
    /\ searches = <<>>
    /\ outcome = NoOutcome
    /\ calls = 0
    /\ returned = <<>>

\* the frame of get_cities is left: its locals are gone
LeaveFrame ==
    /\ pc' = "idle"
    /\ result' = None
    /\ words' = <<>>
    /\ threshold' = 0
    /\ wi' = 0
    /\ request' = NoRequest
    /\ pages' = 0

\* Propagate with the exception caught and the list so far returned
PropagateCaught(exc, h, n, hp) ==
    /\ outcome' = [kind |-> "return", value |-> result, exc |-> "none"]
    /\ heap' = hp
    /\ hist' = h
    /\ yielded' = n
    /\ LeaveFrame
    /\ UNCHANGED <<cities_cache, latlong, searches, calls, returned, arg, ret, world>>

\* an exception leaves get_places and get_cities: nothing catches it
Propagate(exc, h, n, hp) ==
    /\ outcome' = [kind |-> "raise", value |-> None, exc |-> exc]
    /\ heap' = Unwind(hp, result, cities_cache)
    /\ hist' = h
    /\ yielded' = n
    /\ LeaveFrame
    /\ UNCHANGED <<cities_cache, latlong, searches, calls, returned, arg, ret, world>>

\* lines 212-216
StoreAndReturn(h, n, hp) ==
    /\ cities_cache' = Append(cities_cache,
            [location |-> [latitude |-> latlong.lat, longitude |-> latlong.lon],
             cities_list |-> result])
    /\ outcome' = [kind |-> "return", value |-> result, exc |-> "none"]
    /\ heap' = hp
    /\ hist' = h
    /\ yielded' = n
    /\ LeaveFrame
    /\ returned' = Noted(returned, latlong, result)
    /\ UNCHANGED <<latlong, searches, calls, arg, ret, world>>

\* lines 206-209: the loop over words[:5] reaches position i (from 1)
WordLoop(h, ws, th, i, n, hp) ==
    IF i > Len(ws) \/ h[ws[i]] <= th
    THEN StoreAndReturn(h, n, hp)
    ELSE /\ pc' = "secondary"
         /\ wi' = i
         /\ request' = SearchRequest(latlong, SecondaryRadius, ws[i])
         /\ searches' = Append(searches, [distance |-> SecondaryRadius, q |-> ws[i]])
         /\ pages' = 0
         /\ heap' = hp
         /\ hist' = h
         /\ words' = ws
         /\ threshold' = th
         /\ yielded' = n
         /\ UNCHANGED <<cities_cache, latlong, result, outcome, calls, returned,
                         arg, ret, world>>

\* the generator is exhausted: the code after the loop over it runs
AfterSearch(h, n, hp) ==
    IF pc = "primary"
    THEN \E ws \in SortedHeads(DefaultHist(h), DOMAIN DefaultHist(h), MaxWords) :
            WordLoop(DefaultHist(h), ws, Threshold(DefaultHist(h)), 1, n, hp)
    ELSE WordLoop(h, words, threshold, wi + 1, n, hp)

\* get_cities(ll) is called: lines 174-190, up to the first self.get
Call(ll) ==
    /\ pc = "idle"
    /\ calls < Env.calls
    /\ calls' = calls + 1
    /\ latlong' = ll
    /\ LET nearest == Nearest(cities_cache, 1, ll,
                              [cities_list |-> None, dist |-> NoDistance])
           new == NewResult(heap, nearest)
       IN  IF nearest.dist < Sq(HitRadius)
           THEN /\ outcome' = [kind |-> "return", value |-> nearest.cities_list,
                               exc |-> "none"]
                /\ searches' = <<>>
                /\ hist' = <<>>
                /\ yielded' = 0
                /\ returned' = Noted(returned, ll, nearest.cities_list)
                /\ UNCHANGED <<cities_cache, heap, pc, result, words,
                               threshold, wi, request, pages, arg, ret, world>>
           ELSE /\ heap' = new.heap
                /\ result' = new.ref
                /\ hist' = <<>>
                /\ pc' = "primary"
                /\ request' = SearchRequest(ll, PrimaryRadius, <<>>)
                /\ searches' = <<[distance |-> PrimaryRadius, q |-> <<>>]>>
                /\ pages' = 0
                /\ yielded' = 0
                /\ outcome' = [kind |-> "running", value |-> None, exc |-> "none"]
                /\ UNCHANGED <<cities_cache, words, threshold, wi, returned, arg, ret, world>>

\* self.get raises (lines 260-263): the exception reaches the caller
GetRaises(exc) ==
    /\ pc # "idle"
    /\ Propagate(exc, hist, yielded, heap)

\* self.get returns the JSON body `places': lines 154-159 with the body of
\* the consumer's loop, then the next request or the rest of get_cities
GetReturns(places) ==
    /\ pc # "idle"
    /\ IF places = <<>>
       THEN AfterSearch(hist, yielded, heap)
       ELSE LET st == Consume(places.data, pc = "primary",
                              [hist |-> hist, list |-> heap[result], exc |-> "none",
                               seen |-> 0])
                hp == [heap EXCEPT ![result] = st.list]
                n == IF pc = "primary" THEN yielded + st.seen ELSE yielded
            IN  IF st.exc # "none" THEN Propagate(st.exc, st.hist, n, hp)
                ELSE IF LastPage(places) THEN AfterSearch(st.hist, n, hp)
                ELSE /\ request' = NextRequest(places)
                     /\ pages' = pages + 1
                     /\ yielded' = n
                     /\ heap' = hp
                     /\ hist' = st.hist
                     /\ UNCHANGED <<cities_cache, pc, latlong, result, words,
                                    threshold, wi, searches, outcome, calls,
                                    returned, arg, ret, world>>

\* is_city(place) is called on its own
IsCityCall(place) ==
    /\ pc = "idle"
    /\ arg' = place
    /\ ret' = is_city(place)
    /\ UNCHANGED <<cities_cache, heap, pc, latlong, result, hist, words, threshold, wi,
                   request, pages, yielded, searches, outcome, calls, returned, world>>

NextIsCity == \E place \in PlaceShapes : IsCityCall(place)

Next ==
    \/ \E ll \in Env.latlongs : Call(ll)
    \/ \E exc \in GetErrors : GetRaises(exc)
    \/ \E places \in Responses(Env, pages) : GetReturns(places)

\* one specification for each environment
SpecGeo == InitIn("geo") /\ [][Next]_vars
SpecPlaces == InitIn("places") /\ [][Next]_vars
SpecWords == InitIn("words") /\ [][Next]_vars
SpecPages == InitIn("pages") /\ [][Next]_vars
SpecTokens == InitIn("tokens") /\ [][Next]_vars
\* is_city alone, on every shape of place record
SpecIsCity == InitIn("places") /\ [][NextIsCity]_vars

----------------------------------------------------------------------------
(* Vocabulary of the claims. *)

\* the computed distance (squared) from ll to cache entry i
DistTo(ll, i) == distance(ll, cities_cache[i].location)

\* the entries no other entry is nearer to ll than
NearestEntries(ll) ==
    {i \in DOMAIN cities_cache : \A j \in DOMAIN cities_cache : DistTo(ll, i) <= DistTo(ll, j)}

\* every place of list `small' is in list `big'
Contains(big, small) ==
    \A i \in DOMAIN small : \E j \in DOMAIN big : big[j] = small[i]

\* this step is a call of get_cities; latlong' is its coordinate
CallStarts == calls' = calls + 1

\* this step ends a call by returning outcome'.value
CallReturns == outcome'.kind = "return" /\ (CallStarts \/ pc # "idle")

\* this step ends a call that was no cache hit by returning
MissReturns == outcome'.kind = "return" /\ pc # "idle"

\* the state is the one a returning call that was no cache hit leaves
AfterMiss == pc = "idle" /\ outcome.kind = "return" /\ searches # <<>>

\* the state is the one a cache hit leaves
AfterHit == pc = "idle" /\ outcome.kind = "return" /\ searches = <<>>

----------------------------------------------------------------------------
(* C1: a call whose nearest cache entry is at a computed distance below   *)
(* 500 m returns the stored list of a nearest entry, the list unchanged,  *)
(* issues no request and no search, and leaves the cache as it is.        *)
C1_CacheHit ==
    [][(CallStarts /\ \E i \in NearestEntries(latlong') : DistTo(latlong', i) < 500 * 500)
        => /\ outcome'.kind = "return"
           /\ \E i \in NearestEntries(latlong') :
                 outcome'.value = cities_cache[i].cities_list
           /\ heap' = heap
           /\ pc' = "idle"
           /\ request' = NoRequest
           /\ searches' = <<>>
           /\ cities_cache' = cities_cache]_vars

\* a hit on the second of two entries, which holds a place
C1_Witness ==
    /\ AfterHit
    /\ Len(cities_cache) = 2
    /\ outcome.value = cities_cache[2].cities_list
    /\ heap[outcome.value] # <<>>
    /\ NearestEntries(latlong) = {2}
    /\ DistTo(latlong, 2) > 0

----------------------------------------------------------------------------
(* C2 as stated: a call that returns gives a list that contains every     *)
(* place of every cache entry at a computed distance in [500, 1000) m     *)
(* from the call's coordinate.                                             *)
C2_AnyEntryInBand ==
    [][CallReturns
        => \A i \in DOMAIN cities_cache :
              (500 * 500 <= DistTo(latlong', i) /\ DistTo(latlong', i) < 1000 * 1000)
              => Contains(heap'[outcome'.value], heap[cities_cache[i].cities_list])]_vars

(* C2 amended: when the first of the nearest cache entries is at a        *)
(* computed distance in [500, 1000) m, a call that returns gives a list   *)
(* that contains every place of that entry's list.                        *)
C2_NearestInBand ==
    [][CallReturns
        => \A i \in NearestEntries(latlong') :
              (/\ \A j \in NearestEntries(latlong') : i <= j
               /\ 500 * 500 <= DistTo(latlong', i)
               /\ DistTo(latlong', i) < 1000 * 1000)
              => Contains(heap'[outcome'.value], heap[cities_cache[i].cities_list])]_vars

\* a returned call whose nearest earlier entry was in the band and held a
\* place, with another entry in the cache
C2_Witness ==
    /\ AfterMiss
    /\ Len(cities_cache) = 3
    /\ outcome.value = cities_cache[3].cities_list
    /\ \E i \in 1..2 :
          /\ \A j \in 1..2 : DistTo(latlong, i) <= DistTo(latlong, j)
          /\ 500 * 500 <= DistTo(latlong, i)
          /\ DistTo(latlong, i) < 1000 * 1000
          /\ heap[cities_cache[i].cities_list] # <<>>
          /\ Contains(heap[outcome.value], heap[cities_cache[i].cities_list])

----------------------------------------------------------------------------
(* C3 as stated: no two elements of a returned list have the same place   *)
(* identifier.                                                             *)
C3_NoDuplicateId ==
    outcome.kind = "return"
    => \A i, j \in DOMAIN heap[outcome.value] :
          i # j => heap[outcome.value][i].id # heap[outcome.value][j].id

----------------------------------------------------------------------------
(* C4 as stated: after a call made with an empty cache whose primary      *)
(* search yielded no place, the returned list is empty, the histogram is  *)
(* {"city": 1}, and the searches of the call are the primary one and one  *)
(* search for "city" within 10000 m.                                       *)
C4_EmptySearch ==
    (AfterMiss /\ Len(cities_cache) = 1 /\ yielded = 0)
    => /\ heap[outcome.value] = <<>>
       /\ hist = (<<"c", "i", "t", "y">> :> 1)
       /\ searches = << [distance |-> 1000, q |-> <<>>],
                        [distance |-> 10000, q |-> <<"c", "i", "t", "y">>] >>

----------------------------------------------------------------------------
(* C5 as stated: no call of get_cities ends with the KeyError of a place  *)
(* record that lacks a field; only a failed request makes a call raise.   *)
C5_NoKeyError ==
    outcome.kind = "raise" => outcome.exc \in GetErrors

----------------------------------------------------------------------------
(* C6: when a request raises, the call ends in that step by raising the   *)
(* same exception: it returns no list, issues no request and no search    *)
(* after it, and whenever no call is running no request is pending.       *)
C6_Propagates ==
    /\ [](pc = "idle" => request = NoRequest)
    /\ [][\A exc \in GetErrors :
            GetRaises(exc)
            => /\ outcome' = [kind |-> "raise", value |-> None, exc |-> exc]
               /\ pc' = "idle"
               /\ request' = NoRequest
               /\ searches' = searches
               /\ cities_cache' = cities_cache]_vars

\* a call was ended by HTTPError in its second search, places collected
C6_Witness ==
    /\ pc = "idle"
    /\ outcome.kind = "raise"
    /\ outcome.exc = "HTTPError"
    /\ Len(searches) = 2
    /\ yielded > 0

----------------------------------------------------------------------------
(* C7: is_city returns true exactly for a place whose category is one of  *)
(* City, Neighborhood, Country, State/province/region and whose location  *)
(* has both latitude and longitude; with such a category and one of the   *)
(* two fields only, or with both fields and another category, it returns  *)
(* false.                                                                  *)
C7_IsCity ==
    ret # "none"
    => LET eligible == /\ "category" \in DOMAIN arg
                       /\ arg.category \in {"City", "Neighborhood", "Country",
                                            "State/province/region"}
           located == "location" \in DOMAIN arg
           lat == located /\ "latitude" \in DOMAIN arg.location
           lon == located /\ "longitude" \in DOMAIN arg.location
       IN  /\ (ret = "True") <=> (eligible /\ lat /\ lon)
           /\ (eligible /\ located /\ ~(lat /\ lon)) => ret = "False"
           /\ ("category" \in DOMAIN arg /\ ~eligible /\ lat /\ lon) => ret = "False"

\* is_city said no to a country that has a latitude and no longitude
C7_Witness ==
    /\ ret = "False"
    /\ arg.category = "Country"
    /\ DOMAIN arg.location = {"city", "latitude"}

----------------------------------------------------------------------------
(* C8: a step changes the cache only by appending one entry, in the step  *)
(* in which a call that was no cache hit returns; that entry holds the    *)
(* call's coordinate and the list object the call returns; every earlier  *)
(* entry keeps its position, its location and the contents of its list.   *)
C8_AppendOnly ==
    [][/\ \A i \in DOMAIN cities_cache :
            /\ i \in DOMAIN cities_cache'
            /\ cities_cache'[i] = cities_cache[i]
            /\ heap'[cities_cache[i].cities_list] = heap[cities_cache[i].cities_list]
       /\ IF MissReturns
          THEN cities_cache' = Append(cities_cache,
                    [location |-> [latitude |-> latlong.lat, longitude |-> latlong.lon],
                     cities_list |-> outcome'.value])
          ELSE cities_cache' = cities_cache]_vars

\* the second entry was appended by a call that started from the first
\* entry's list and added to it
C8_Witness ==
    /\ AfterMiss
    /\ Len(cities_cache) = 2
    /\ outcome.value = cities_cache[2].cities_list
    /\ cities_cache[2].cities_list # cities_cache[1].cities_list
    /\ heap[cities_cache[1].cities_list] # <<>>
    /\ Len(heap[cities_cache[2].cities_list]) > Len(heap[cities_cache[1].cities_list])
    /\ Contains(heap[cities_cache[2].cities_list], heap[cities_cache[1].cities_list])

----------------------------------------------------------------------------
(* C9: the searches of a call are the primary one and then, once it is    *)
(* exhausted, at most 5 searches within 10000 m, each for a word counted  *)
(* more often than the word in the middle (index n div 2) of the n words  *)
(* by descending count, in non-increasing order of count, no word counted *)
(* more often being left out; a call that returns has searched for all    *)
(* such words, or for 5 of them.                                           *)

\* the count of the word at index n div 2 (from 0) of the n words of h by
\* descending count
MiddleCount(h) ==
    CHOOSE f \in {h[k] : k \in DOMAIN h} :
        /\ Cardinality({k \in DOMAIN h : h[k] > f}) <= Cardinality(DOMAIN h) \div 2
        /\ Cardinality({k \in DOMAIN h : h[k] >= f}) > Cardinality(DOMAIN h) \div 2

MoreThanMiddle(h) == {k \in DOMAIN h : h[k] > MiddleCount(h)}

C9_SecondarySearches ==
    searches # <<>>
    => LET n == Len(searches)
           q(i) == searches[i].q
       IN  /\ searches[1] = [distance |-> 1000, q |-> <<>>]
           /\ n <= 1 + 5
           /\ pc = "primary" => n = 1
           /\ \A i \in 2..n :
                 /\ searches[i].distance = 10000
                 /\ q(i) \in MoreThanMiddle(hist)
                 /\ \A j \in 2..(i - 1) : q(j) # q(i) /\ hist[q(j)] >= hist[q(i)]
                 /\ \A k \in DOMAIN hist :
                       hist[k] > hist[q(i)] => \E j \in 2..(i - 1) : q(j) = k
           /\ AfterMiss
              => n - 1 = IF Cardinality(MoreThanMiddle(hist)) < 5
                         THEN Cardinality(MoreThanMiddle(hist)) ELSE 5

\* a returned call with six words above the middle count, five of them
\* searched for, two of these of equal count
C9_Witness ==
    /\ AfterMiss
    /\ Len(searches) = 6
    /\ Cardinality(MoreThanMiddle(hist)) = 6
    /\ hist[searches[3].q] = hist[searches[4].q]
    /\ hist[searches[2].q] > hist[searches[6].q]

----------------------------------------------------------------------------
RECURSIVE InOrder(_, _)
InOrder(t, data) ==
    IF t = <<>> THEN TRUE
    ELSE IF data = <<>> THEN FALSE
    ELSE IF Head(t) = Head(data) THEN InOrder(Tail(t), Tail(data))
    ELSE InOrder(t, Tail(data))

----------------------------------------------------------------------------
(* C11 *)

\* the whitespace-separated words of the name and of the city of a place
WordsOf(place) == Split(place.name) \o Split(place.location.city)

\* a word less one leading ',' or '(' if it has one, and then less one
\* trailing ',' or ')' if it has one
Stripped(word) ==
    LET lead == IF Len(word) >= 1 /\ word[1] \in {",", "("} THEN 1 ELSE 0
        rest == SubSeq(word, lead + 1, Len(word))
        trail == IF Len(rest) >= 1 /\ rest[Len(rest)] \in {",", ")"} THEN 1 ELSE 0
    IN  SubSeq(rest, 1, Len(rest) - trail)

\* the words of a place, each less the characters stripped from it
Remainders(place) ==
    LET ws == WordsOf(place)
    IN  [i \in 1..Len(ws) |-> Stripped(ws[i])]

\* the histogram h after the words with remainders `rest' have been
\* counted: each occurrence i of a word whose remainder has more than two
\* characters adds one under the remainder in lower case
CountedWords(h, rest) ==
    LET occurrences == {i \in DOMAIN rest : Len(rest[i]) > 2}
        key == [i \in occurrences |-> Lower(rest[i])]
    IN  [k \in DOMAIN h \cup {key[i] : i \in occurrences} |->
            (IF k \in DOMAIN h THEN h[k] ELSE 0)
                + Cardinality({i \in occurrences : key[i] = k})]

\* the histogram h after the words of the places of a page have been counted
RECURSIVE Counted(_, _)
Counted(h, data) ==
    IF data = <<>> THEN h
    ELSE Counted(CountedWords(h, Remainders(Head(data))), Tail(data))

\* the words of the places the API serves
Vocabulary == UNION {{WordsOf(p)[i] : i \in 1..Len(WordsOf(p))} : p \in Env.places}

\* the step part of C11: the histogram after a page is the one before it
\* with every surviving word of the page counted once under its key
C11_Counted ==
    [][\A places \in IF pc = "primary" /\ outcome'.kind # "raise"
                      THEN {r \in Responses(Env, pages) \ {<<>>} :
                               yielded' = yielded + Len(r.data)}
                      ELSE {} :
          GetReturns(places)
          => /\ Counted(hist, places.data) # <<>>
                => hist' = Counted(hist, places.data)]_vars

(* C11: when the consumer of the primary search takes the places of a     *)
(* page without raising, every word                                       *)
(* of their names and cities is counted once under the key that is the    *)
(* word less at most one leading ',' or '(' and then at most one trailing *)
(* ',' or ')', in lower case, and words whose remainder has at most two   *)
(* characters are not counted; a word counts under the same key in any    *)
(* case of its letters and with one such character put before or after    *)
(* it when it has none there.                                             *)
C11_Tokenization ==
    /\ C11_Counted
    /\ [](\A w \in Vocabulary :
            /\ CountWords(<<Lower(w)>>, <<>>) = CountWords(<<w>>, <<>>)
            /\ w[1] \notin {",", "("}
               => \A c \in {",", "("} :
                     CountWords(<<<<c>> \o w>>, <<>>) = CountWords(<<w>>, <<>>)
            /\ w[Len(w)] \notin {",", ")"}
               => \A c \in {",", ")"} :
                     CountWords(<<w \o <<c>>>>, <<>>) = CountWords(<<w>>, <<>>))

\* the primary search has yielded Punct alone: four of its words are
\* counted under abc, one each under (abc), abcd and )abc(, and of, (x),
\* ,ab) and () under no key
C11_Witness ==
    /\ world = "tokens"
    /\ yielded = 1
    /\ hist = (<<"a", "b", "c">> :> 4) @@ (<<"(", "a", "b", "c", ")">> :> 1)
              @@ (<<"a", "b", "c", "d">> :> 1) @@ (<<")", "a", "b", "c", "(">> :> 1)

----------------------------------------------------------------------------
(* C12 *)

\* the place has an eligible category and both coordinates
Eligible(place) ==
    /\ "category" \in DOMAIN place
    /\ place.category \in {"City", "Neighborhood", "Country", "State/province/region"}
    /\ "location" \in DOMAIN place
    /\ "latitude" \in DOMAIN place.location
    /\ "longitude" \in DOMAIN place.location

(* C12: at every moment every place of the list of every cache entry is   *)
(* eligible, and so is every place of the list the last call returned     *)
(* and of the list a running call is working on.                          *)
C12_OnlyCities ==
    /\ \A i \in DOMAIN cities_cache :
          \A j \in DOMAIN heap[cities_cache[i].cities_list] :
             Eligible(heap[cities_cache[i].cities_list][j])
    /\ outcome.kind = "return"
       => \A j \in DOMAIN heap[outcome.value] : Eligible(heap[outcome.value][j])
    /\ pc # "idle" => \A j \in DOMAIN heap[result] : Eligible(heap[result][j])

\* the second call was seeded with the list of the first entry, its
\* primary search yielded two places, of which one was appended, and it
\* stored and returned the list
C12_Witness ==
    /\ AfterMiss
    /\ world = "places"
    /\ Len(cities_cache) = 2
    /\ heap[cities_cache[1].cities_list] = <<Rome>>
    /\ heap[cities_cache[2].cities_list] = <<Rome, Roma>>
    /\ outcome.value = cities_cache[2].cities_list
    /\ yielded = 2

----------------------------------------------------------------------------
(* C13 *)

\* the coordinate cache entry i was stored for
CoordinateOf(entry) == LatLong(entry.location.latitude, entry.location.longitude)

\* every entry was at a computed distance of 500 m or more, measured from
\* its own coordinate, from every entry stored before it
Separated(cache) ==
    \A i \in DOMAIN cache : \A j \in DOMAIN cache :
       i < j => distance(CoordinateOf(cache[j]), cache[i].location) >= 500 * 500

\* this step is a call with the coordinate of an earlier call that returned
RepeatedCall == CallStarts /\ latlong' \in DOMAIN returned

(* C13 as stated: the entries of the cache are 500 m or more apart, as    *)
(* measured from the later to the earlier one, and a call with the        *)
(* coordinate of an earlier call that returned is a cache hit that        *)
(* returns a list of the places the earlier call returned.                *)
C13_SameListAgain ==
    [][/\ Separated(cities_cache')
       /\ RepeatedCall
          => /\ outcome'.kind = "return"
             /\ pc' = "idle"
             /\ searches' = <<>>
             /\ heap'[outcome'.value] = heap[returned[latlong']]]_vars

(* C13 amended: the entries of the cache are 500 m or more apart, as      *)
(* measured from the later to the earlier one, and a call with the        *)
(* coordinate of an earlier call that returned is a cache hit; it returns *)
(* the list the earlier call returned when that call stored an entry, and *)
(* otherwise returns that list or the list of an entry that is nearer to  *)
(* the coordinate than the entry the earlier call hit.                    *)
C13_HitAgain ==
    [][/\ Separated(cities_cache')
       /\ RepeatedCall
          => /\ outcome'.kind = "return"
             /\ pc' = "idle"
             /\ searches' = <<>>
             /\ cities_cache' = cities_cache
             /\ \E i \in DOMAIN cities_cache : outcome'.value = cities_cache[i].cities_list
             /\ (\E i \in DOMAIN cities_cache : CoordinateOf(cities_cache[i]) = latlong')
                => outcome'.value = returned[latlong']
             /\ \/ outcome'.value = returned[latlong']
                \/ \E i \in DOMAIN cities_cache : \E j \in DOMAIN cities_cache :
                      /\ cities_cache[i].cities_list = returned[latlong']
                      /\ cities_cache[j].cities_list = outcome'.value
                      /\ i < j
                      /\ DistTo(latlong', j) < DistTo(latlong', i)]_vars

\* the pole and then a coordinate 699 m from it, as measured from there,
\* have been stored, though measured from the pole the second is at 0 m;
\* a second call with the pole was a hit on the first entry
C13_Witness ==
    /\ AfterHit
    /\ latlong = PoleLL
    /\ Len(cities_cache) = 2
    /\ CoordinateOf(cities_cache[1]) = PoleLL
    /\ CoordinateOf(cities_cache[2]) = LL0
    /\ distance(PoleLL, cities_cache[2].location) < 500 * 500
    /\ distance(LL0, cities_cache[1].location) >= 500 * 500
    /\ returned[PoleLL] = cities_cache[1].cities_list
    /\ outcome.value = cities_cache[1].cities_list

----------------------------------------------------------------------------
(* C14 *)

\* the step leaves the cache as it is: the same entries, and the same
\* places in the list of each
CacheKept ==
    /\ cities_cache' = cities_cache
    /\ \A i \in DOMAIN cities_cache :
          heap'[cities_cache[i].cities_list] = heap[cities_cache[i].cities_list]

(* C14: every step of a get_cities call other than the one in which it    *)
(* returns leaves the cache as it is, the step in which an exception ends *)
(* the call included; so a call that ends with an exception, of a request *)
(* of the primary or of a secondary search or of the loop over a page,    *)
(* leaves the cache as it was before the call: no entry is added and no   *)
(* list of an entry is changed, whatever the working list had collected.  *)
C14_RaiseKeepsCache ==
    [][/\ ((CallStarts \/ pc # "idle") /\ outcome'.kind # "return") => CacheKept
       /\ outcome'.kind = "raise"
          => /\ pc' = "idle"
             /\ CacheKept
             /\ outcome.kind = "running"]_vars

\* a call 500 m from the entry that holds Rome was seeded with it, took
\* Roma from the first page of its primary search, and ended when the
\* request of the next page raised: the entry still holds Rome alone
C14_Witness ==
    /\ world = "places"
    /\ pc = "idle"
    /\ outcome.kind = "raise"
    /\ outcome.exc = "HTTPError"
    /\ latlong = LL50
    /\ yielded = 1
    /\ DOMAIN hist = {<<"r", "o", "m", "a">>, <<"r", "o", "m", "e">>}
    /\ Len(cities_cache) = 1
    /\ CoordinateOf(cities_cache[1]) = LL0
    /\ heap[cities_cache[1].cities_list] = <<Rome>>

====
